---- MODULE Spec2Model ----
(***************************************************************************)
(* routes/portfolio/data_formatter.py: read atit.json, parse it, stamp     *)
(* every element of its `portfolio` array with its position as `id`,       *)
(* serialise the document, overwrite atit.json with it and print it.       *)
(*                                                                         *)
(* A file's text is a sequence of lexical tokens.  A token and a JSON      *)
(* scalar are pairs <<tag, payload>>:                                      *)
(*   <<"p", c>>     punctuation, c one of { } [ ] , :                      *)
(*   <<"ws", " ">>  a run of whitespace                                    *)
(*   <<"str", s>>   a string literal / a Python str                        *)
(*   <<"num", n>>   a number literal / a Python int                        *)
(*   <<"lit", w>>   null, true or false / None, True or False              *)
(*   <<"bad", w>>   any other run of characters (a bare word, a NUL byte)  *)
(* A Python list is <<"arr", <<v1, ..., vn>> >> and a Python dict is       *)
(* <<"obj", << <<k1, v1>>, ..., <<kn, vn>> >> >>, its keys distinct and in *)
(* insertion order.                                                        *)
(***************************************************************************)
EXTENDS Integers, Sequences, FiniteSets

LBrace == <<"p", "{">>
RBrace == <<"p", "}">>
LBrack == <<"p", "[">>
RBrack == <<"p", "]">>
Comma  == <<"p", ",">>
Colon  == <<"p", ":">>
Sp     == <<"ws", " ">>
None   == <<"lit", "null">>

Str(s) == <<"str", s>>
Num(n) == <<"num", n>>
Arr(s) == <<"arr", s>>
Obj(s) == <<"obj", s>>

IsDict(v) == v[1] = "obj"
IsList(v) == v[1] = "arr"

(***************************************************************************)
(* dict operations: `k in d`, d[k] and d[k] = v.  Assignment to a key the  *)
(* dict holds keeps the key's position; a new key goes last.               *)
(***************************************************************************)
HasKey(d, k) == \E j \in 1..Len(d[2]) : d[2][j][1] = k

GetItem(d, k) == d[2][CHOOSE j \in 1..Len(d[2]) : d[2][j][1] = k][2]

SetItem(d, k, v) ==
    IF HasKey(d, k)
    THEN Obj([j \in 1..Len(d[2]) |-> IF d[2][j][1] = k THEN <<k, v>> ELSE d[2][j]])
    ELSE Obj(Append(d[2], <<k, v>>))

(***************************************************************************)
(* json.dumps(data) with the default separators (', ', ': ').              *)
(***************************************************************************)
RECURSIVE encode(_), encodeList(_, _), encodeDict(_, _)

encodeList(s, j) ==
    IF j > Len(s) THEN <<>>
    ELSE (IF j > 1 THEN <<Comma, Sp>> ELSE <<>>) \o encode(s[j]) \o encodeList(s, j + 1)

encodeDict(s, j) ==
    IF j > Len(s) THEN <<>>
    ELSE (IF j > 1 THEN <<Comma, Sp>> ELSE <<>>)
         \o <<Str(s[j][1]), Colon, Sp>> \o encode(s[j][2]) \o encodeDict(s, j + 1)

encode(v) ==
    IF IsList(v) THEN <<LBrack>> \o encodeList(v[2], 1) \o <<RBrack>>
    ELSE IF IsDict(v) THEN <<LBrace>> \o encodeDict(v[2], 1) \o <<RBrace>>
    ELSE <<v>>

\* str(data) in place of json.dumps(data): strings in single quotes, None,
\* True and False as Python spells them; none of these is a JSON token
dumpsRepr(v) ==
    [j \in 1..Len(encode(v)) |->
        IF encode(v)[j][1] \in {"str", "lit"} THEN <<"bad", encode(v)[j][2]>>
        ELSE encode(v)[j]]

dumps(v) == encode(v)

(***************************************************************************)
(* json.loads(json_data): the decoder's scanner.  A result is              *)
(* [ok, val, pos]: whether a value was scanned, the value, and the index   *)
(* of the first token after it.  ok = FALSE is json.JSONDecodeError.       *)
(***************************************************************************)
NoValue(i) == [ok |-> FALSE, val |-> None, pos |-> i]
Scanned(v, i) == [ok |-> TRUE, val |-> v, pos |-> i]

RECURSIVE SkipWs(_, _)
SkipWs(s, i) == IF i <= Len(s) /\ s[i][1] = "ws" THEN SkipWs(s, i + 1) ELSE i

RECURSIVE ScanOnce(_, _), JSONArray(_, _, _), JSONObject(_, _, _)

\* the elements of an array, i at the start of an element
JSONArray(s, i, acc) ==
    LET r == ScanOnce(s, i) IN
    IF ~r.ok THEN r
    ELSE LET e == SkipWs(s, r.pos) IN
         IF e > Len(s) THEN NoValue(e)
         ELSE IF s[e] = RBrack THEN Scanned(Arr(Append(acc, r.val)), e + 1)
         ELSE IF s[e] = Comma THEN JSONArray(s, SkipWs(s, e + 1), Append(acc, r.val))
         ELSE NoValue(e)

\* the members of an object, i at the start of a key; a repeated key keeps
\* its last value
JSONObject(s, i, acc) ==
    IF i > Len(s) \/ s[i][1] # "str" THEN NoValue(i)
    ELSE LET c == SkipWs(s, i + 1) IN
         IF c > Len(s) \/ s[c] # Colon THEN NoValue(c)
         ELSE LET r == ScanOnce(s, SkipWs(s, c + 1)) IN
              IF ~r.ok THEN r
              ELSE LET d == SetItem(acc, s[i][2], r.val)
                       e == SkipWs(s, r.pos) IN
                   IF e > Len(s) THEN NoValue(e)
                   ELSE IF s[e] = RBrace THEN Scanned(d, e + 1)
                   ELSE IF s[e] = Comma THEN JSONObject(s, SkipWs(s, e + 1), d)
                   ELSE NoValue(e)

ScanOnce(s, i) ==
    IF i > Len(s) THEN NoValue(i)
    ELSE IF s[i][1] \in {"str", "num", "lit"} THEN Scanned(s[i], i + 1)
    ELSE IF s[i] = LBrace
         THEN LET j == SkipWs(s, i + 1) IN
              IF j <= Len(s) /\ s[j] = RBrace THEN Scanned(Obj(<<>>), j + 1)
              ELSE JSONObject(s, j, Obj(<<>>))
    ELSE IF s[i] = LBrack
         THEN LET j == SkipWs(s, i + 1) IN
              IF j <= Len(s) /\ s[j] = RBrack THEN Scanned(Arr(<<>>), j + 1)
              ELSE JSONArray(s, j, <<>>)
    ELSE NoValue(i)

\* JSONDecoder.raw_decode in place of decode: what follows the value is ignored
loadsRaw(s) == ScanOnce(s, SkipWs(s, 1))

\* JSONDecoder.decode: one value, whitespace allowed around it, nothing after
loads(s) ==
    LET r == ScanOnce(s, SkipWs(s, 1)) IN
    IF r.ok /\ SkipWs(s, r.pos) <= Len(s) THEN NoValue(r.pos) ELSE r


(***************************************************************************)
(* The loop of lines 11-12.                                                *)
(***************************************************************************)
\* what `for ... in enumerate(x)` iterates over: the elements of a list, the
\* keys of a dict, the characters of a str (each a str of length one; which
\* character it is plays no part)
Iterable(x) == x[1] \in {"arr", "obj", "str"}

Items(x) ==
    IF IsList(x) THEN x[2]
    ELSE IF IsDict(x) THEN [j \in 1..Len(x[2]) |-> Str(x[2][j][1])]
    ELSE [j \in 1..Len(x[2]) |-> Str("c")]

\* item['id'] = n + 1: ids counted from one
StampIdFromOne(d, n) ==
    LET portfolio == GetItem(d, "portfolio")[2] IN
    SetItem(d, "portfolio",
            Arr([portfolio EXCEPT ![n + 1] = SetItem(@, "id", Num(n + 1))]))

\* data['portfolio'][n] = {'id': n}: the element replaced, not updated
StampIdFresh(d, n) ==
    LET portfolio == GetItem(d, "portfolio")[2] IN
    SetItem(d, "portfolio",
            Arr([portfolio EXCEPT ![n + 1] = Obj(<< <<"id", Num(n)>> >>)]))

\* item['id'] = item.get('id', 0) + n: the new id built on the old one
StampIdOnOld(d, n) ==
    LET portfolio == GetItem(d, "portfolio")[2]
        old == IF HasKey(portfolio[n + 1], "id") /\ GetItem(portfolio[n + 1], "id")[1] = "num"
               THEN GetItem(portfolio[n + 1], "id")[2] ELSE 0 IN
    SetItem(d, "portfolio",
            Arr([portfolio EXCEPT ![n + 1] = SetItem(@, "id", Num(old + n))]))

\* item['id'] = n, item being element n of d['portfolio'] (the same object)
StampId(d, n) ==
    LET portfolio == GetItem(d, "portfolio")[2] IN
    SetItem(d, "portfolio",
            Arr([portfolio EXCEPT ![n + 1] = SetItem(@, "id", Num(n))]))

(***************************************************************************)
(* The file.  A write puts its tokens at the writer's own offset; a gap    *)
(* left by another writer's truncation reads as NUL bytes.                 *)
(***************************************************************************)
Nul == <<"bad", "NUL">>

Max(a, b) == IF a >= b THEN a ELSE b

\* the file opened in mode 'a': every write lands at the end of the file
WriteAtEnd(f, at, chunk) == f \o chunk

WriteAt(f, at, chunk) ==
    [j \in 1..Max(Len(f), at + Len(chunk)) |->
        IF j > at /\ j <= at + Len(chunk) THEN chunk[j - at]
        ELSE IF j <= Len(f) THEN f[j]
        ELSE Nul]

(***************************************************************************)
(* Contents atit.json may start with.                                      *)
(***************************************************************************)
K(k) == <<Str(k), Colon, Sp>>
Bad(w) == <<"bad", w>>

\* {"portfolio": [{"name": "A"}, {"name": "B", "id": 99}, {"name": "C"}]}
FExample ==
    <<LBrace>> \o K("portfolio") \o <<LBrack, LBrace>> \o K("name") \o <<Str("A"), RBrace, Comma, Sp, LBrace>>
    \o K("name") \o <<Str("B"), Comma, Sp>> \o K("id") \o <<Num(99), RBrace, Comma, Sp, LBrace>>
    \o K("name") \o <<Str("C"), RBrace, RBrack, RBrace>>

\* { "owner": "x", "portfolio": [{"id": 7, "name": "A", "tags": ["t", 1]}, {"name": "B"}], "n": 1 }
FFrame ==
    <<LBrace, Sp>> \o K("owner") \o <<Str("x"), Comma, Sp>> \o K("portfolio") \o <<LBrack, LBrace>>
    \o K("id") \o <<Num(7), Comma, Sp>> \o K("name") \o <<Str("A"), Comma, Sp>>
    \o K("tags") \o <<LBrack, Str("t"), Comma, Sp, Num(1), RBrack, RBrace, Comma, Sp, LBrace>>
    \o K("name") \o <<Str("B"), RBrace, RBrack, Comma, Sp>> \o K("n") \o <<Num(1), Sp, RBrace, Sp>>

\* {"portfolio":[{"m":0},{"n":"a"}]}
FCompact ==
    <<LBrace, Str("portfolio"), Colon, LBrack, LBrace, Str("m"), Colon, Num(0), RBrace, Comma,
      LBrace, Str("n"), Colon, Str("a"), RBrace, RBrack, RBrace>>

\* {"portfolio": [{"id": 1, "id": 2}], "portfolio": [{"id": 5, "id": 6, "a": null}]}
FRepeated ==
    <<LBrace>> \o K("portfolio") \o <<LBrack, LBrace>> \o K("id") \o <<Num(1), Comma, Sp>> \o K("id")
    \o <<Num(2), RBrace, RBrack, Comma, Sp>> \o K("portfolio") \o <<LBrack, LBrace>> \o K("id")
    \o <<Num(5), Comma, Sp>> \o K("id") \o <<Num(6), Comma, Sp>> \o K("a") \o <<None, RBrace, RBrack, RBrace>>

\* {"portfolio": X}
FPortfolio(X) == <<LBrace>> \o K("portfolio") \o X \o <<RBrace>>

\* documents the whole run succeeds on
GoodFiles ==
    { FExample, FFrame, FCompact, FRepeated,
      FPortfolio(<<LBrack, RBrack>>),                               \* []
      FPortfolio(<<LBrace, RBrace>>),                               \* {}
      FPortfolio(<<Str("")>>) }                                     \* ""

\* JSON documents the loop fails on
SchemaFiles ==
    { <<LBrace>> \o K("owner") \o <<Str("x"), RBrace>>,             \* {"owner": "x"}
      <<LBrace, RBrace>>,                                           \* {}
      <<LBrack>> \o FPortfolio(<<LBrack, RBrack>>) \o <<RBrack>>,   \* [{"portfolio": []}]
      <<Str("not json")>>,                                          \* "not json"
      <<Num(5)>>,                                                   \* 5
      FPortfolio(<<LBrace>> \o K("a") \o <<Num(1), RBrace>>),       \* {"a": 1}
      FPortfolio(<<Str("ab")>>),                                    \* "ab"
      FPortfolio(<<Num(5)>>),                                       \* 5
      FPortfolio(<<None>>),                                         \* null
      FPortfolio(<<<<"lit", "true">>>>),                            \* true
      FPortfolio(<<LBrack, Str("s"), RBrack>>),                     \* ["s"]
      FPortfolio(<<LBrack, LBrack, RBrack, RBrack>>),               \* [[]]
      FPortfolio(<<LBrack, LBrace>> \o K("name") \o <<Str("A"), RBrace, Comma, Sp,
                   None, RBrack>>),                                 \* [{"name": "A"}, null]
      FPortfolio(<<LBrack, LBrace>> \o K("name") \o <<Str("A"), RBrace, Comma, Sp,
                   LBrace, RBrace, Comma, Sp, Num(3), Comma, Sp, LBrace, RBrace,
                   RBrack>>) }                                      \* [{"name": "A"}, {}, 3, {}]

\* texts that are not JSON
MalformedFiles ==
    { <<Bad("not"), Sp, Bad("json")>>,                              \* not json
      <<>>,                                                         \* the empty file
      <<Sp>>,
      <<LBrace>> \o K("portfolio") \o <<LBrack>>,                   \* {"portfolio": [
      FPortfolio(<<LBrack, LBrace, RBrace, Comma, RBrack>>),        \* [{},]
      FPortfolio(<<LBrack, RBrack>>) \o <<Sp, LBrace, RBrace>>,     \* {"portfolio": []} {}
      <<LBrace, Str("portfolio"), Sp, LBrack, RBrack, RBrace>>,     \* {"portfolio" []}
      <<LBrace, Num(1), Colon, LBrack, RBrack, RBrace>>,            \* {1:[]}
      <<LBrace>> \o K("portfolio") \o <<LBrack, RBrack, Comma, RBrace>> }

Files == GoodFiles \cup SchemaFiles \cup MalformedFiles

(***************************************************************************)
(* State.  atit_json is the content of atit.json, stdout what has been     *)
(* printed, one text per print call.  Each run of the script is a process  *)
(* p with its own variables, named as in the source; pos[p] is the offset  *)
(* of its open file object, err[p] the exception that ended it.  initial   *)
(* keeps the content atit.json started with.                               *)
(***************************************************************************)
VARIABLES atit_json, stdout, initial, pc, json_data, data, i, updated_json_data, pos, err

vars == <<atit_json, stdout, initial, pc, json_data, data, i, updated_json_data, pos, err>>

Runs == 2

Procs == 1..Runs

Terminated == {"done", "failed", "crashed"}

InitWith(F) ==
    /\ atit_json \in F
    /\ initial = atit_json
    /\ stdout = <<>>
    /\ pc = [p \in Procs |-> "idle"]
    /\ json_data = [p \in Procs |-> <<>>]
    /\ data = [p \in Procs |-> None]
    /\ i = [p \in Procs |-> 0]
    /\ updated_json_data = [p \in Procs |-> <<>>]
    /\ pos = [p \in Procs |-> 0]
    /\ err = [p \in Procs |-> "none"]

Init == InitWith(Files)

Goto(p, l) == pc' = [pc EXCEPT ![p] = l]

Raise(p, e) == pc' = [pc EXCEPT ![p] = "failed"] /\ err' = [err EXCEPT ![p] = e]

\* open('atit.json', 'w+'): the file truncated when opened for reading
OpenReadTruncating(p) ==
    /\ pc[p] = "idle"
    /\ Goto(p, "read")
    /\ atit_json' = <<>>
    /\ pos' = [pos EXCEPT ![p] = 0]
    /\ UNCHANGED <<stdout, initial, json_data, data, i, updated_json_data, err>>

\* line 4: open('atit.json', 'r')
OpenRead(p) ==
    /\ pc[p] = "idle"
    /\ Goto(p, "read")
    /\ pos' = [pos EXCEPT ![p] = 0]
    /\ UNCHANGED <<atit_json, stdout, initial, json_data, data, i, updated_json_data, err>>

\* How much of `avail` pending tokens one read or write system call moves:
\* any part of them.  Moving n tokens in one call leaves the state that n
\* calls of one token leave, so the single token and the whole suffice.
Transfer(avail) == {1, avail}

\* line 5: file.read() reads until a read returns nothing; each read returns
\* what the file holds from the reader's offset on, or a part of it
Read(p) ==
    /\ pc[p] = "read"
    /\ IF pos[p] < Len(atit_json)
       THEN \E n \in Transfer(Len(atit_json) - pos[p]) :
              /\ json_data' = [json_data EXCEPT
                                 ![p] = @ \o SubSeq(atit_json, pos[p] + 1, pos[p] + n)]
              /\ pos' = [pos EXCEPT ![p] = @ + n]
              /\ UNCHANGED pc
       ELSE /\ Goto(p, "loads")
            /\ UNCHANGED <<json_data, pos>>
    /\ UNCHANGED <<atit_json, stdout, initial, data, i, updated_json_data, err>>

\* line 8: data = json.loads(json_data)
Loads(p) ==
    /\ pc[p] = "loads"
    /\ LET r == loads(json_data[p]) IN
       IF r.ok
       THEN /\ data' = [data EXCEPT ![p] = r.val]
            /\ Goto(p, "enumerate")
            /\ UNCHANGED err
       ELSE /\ Raise(p, "JSONDecodeError")
            /\ UNCHANGED data
    /\ UNCHANGED <<atit_json, stdout, initial, json_data, i, updated_json_data, pos>>

\* enumerate(data.get('portfolio')): a missing key gives None, which
\* enumerate refuses
EnumerateRaisesGet(d) ==
    IF ~IsDict(d) THEN "AttributeError"
    ELSE IF ~HasKey(d, "portfolio") THEN "TypeError"
    ELSE IF ~Iterable(GetItem(d, "portfolio")) THEN "TypeError"
    ELSE "none"

\* the exception enumerate(d['portfolio']) raises, "none" when it raises none:
\* d[...] is a TypeError unless d is a dict (a list or a str takes integer
\* indices only), a KeyError when the key is missing
EnumerateRaises(d) ==
    IF ~IsDict(d) THEN "TypeError"
    ELSE IF ~HasKey(d, "portfolio") THEN "KeyError"
    ELSE IF ~Iterable(GetItem(d, "portfolio")) THEN "TypeError"
    ELSE "none"

\* line 11: enumerate(data['portfolio'])
Enumerate(p) ==
    /\ pc[p] = "enumerate"
    /\ IF EnumerateRaises(data[p]) # "none"
       THEN Raise(p, EnumerateRaises(data[p])) /\ UNCHANGED i
       ELSE /\ Goto(p, "for")
            /\ i' = [i EXCEPT ![p] = 0]
            /\ UNCHANGED err
    /\ UNCHANGED <<atit_json, stdout, initial, json_data, data, updated_json_data, pos>>

\* the loop with `if isinstance(item, dict)` around its body: an element
\* that is no dict is passed over
ForSkipping(p) ==
    /\ pc[p] = "for"
    /\ LET items == Items(GetItem(data[p], "portfolio")) IN
       IF i[p] >= Len(items)
       THEN Goto(p, "dumps") /\ UNCHANGED <<data, i, err>>
       ELSE /\ data' = [data EXCEPT ![p] = IF IsDict(items[i[p] + 1])
                                            THEN StampId(@, i[p]) ELSE @]
            /\ i' = [i EXCEPT ![p] = @ + 1]
            /\ UNCHANGED <<pc, err>>
    /\ UNCHANGED <<atit_json, stdout, initial, json_data, updated_json_data, pos>>

\* lines 11-12: one turn of the loop, or its end
For(p) ==
    /\ pc[p] = "for"
    /\ LET items == Items(GetItem(data[p], "portfolio")) IN
       IF i[p] >= Len(items)
       THEN Goto(p, "dumps") /\ UNCHANGED <<data, i, err>>
       ELSE IF IsDict(items[i[p] + 1])
       THEN /\ data' = [data EXCEPT ![p] = StampId(@, i[p])]
            /\ i' = [i EXCEPT ![p] = @ + 1]
            /\ UNCHANGED <<pc, err>>
       ELSE Raise(p, "TypeError") /\ UNCHANGED <<data, i>>
    /\ UNCHANGED <<atit_json, stdout, initial, json_data, updated_json_data, pos>>

\* line 15: updated_json_data = json.dumps(data)
Dumps(p) ==
    /\ pc[p] = "dumps"
    /\ updated_json_data' = [updated_json_data EXCEPT ![p] = dumps(data[p])]
    /\ Goto(p, "open_w")
    /\ UNCHANGED <<atit_json, stdout, initial, json_data, data, i, pos, err>>

\* open(..., 'r+'): the content kept
Kept(f) == f

\* what open(..., 'w') leaves of the file's content
Truncated(f) == <<>>

\* line 18: open('atit.json', 'w')
OpenWrite(p) ==
    /\ pc[p] = "open_w"
    /\ atit_json' = Truncated(atit_json)
    /\ pos' = [pos EXCEPT ![p] = 0]
    /\ Goto(p, "write")
    /\ UNCHANGED <<stdout, initial, json_data, data, i, updated_json_data, err>>

\* line 19: file.write(updated_json_data) and the flush on leaving the
\* `with` block: the text reaches the file in one or more writes
Write(p) ==
    /\ pc[p] = "write"
    /\ IF pos[p] < Len(updated_json_data[p])
       THEN \E n \in Transfer(Len(updated_json_data[p]) - pos[p]) :
              /\ atit_json' = WriteAt(atit_json, pos[p],
                                      SubSeq(updated_json_data[p], pos[p] + 1, pos[p] + n))
              /\ pos' = [pos EXCEPT ![p] = @ + n]
              /\ UNCHANGED pc
       ELSE /\ Goto(p, "print")
            /\ UNCHANGED <<atit_json, pos>>
    /\ UNCHANGED <<stdout, initial, json_data, data, i, updated_json_data, err>>

\* line 19: a write fails (disk full, I/O error)
WriteFails(p) ==
    /\ pc[p] = "write"
    /\ pos[p] < Len(updated_json_data[p])
    /\ Raise(p, "OSError")
    /\ UNCHANGED <<atit_json, stdout, initial, json_data, data, i, updated_json_data, pos>>

\* line 21: print(updated_json_data)
Report(p) ==
    /\ pc[p] = "print"
    /\ stdout' = Append(stdout, updated_json_data[p])
    /\ Goto(p, "done")
    /\ UNCHANGED <<atit_json, initial, json_data, data, i, updated_json_data, pos, err>>

\* the process is killed, or the machine stops, between two steps; nothing
\* of the process's memory outlives it
Crash(p) ==
    /\ pc[p] \notin Terminated \cup {"idle"}
    /\ Goto(p, "crashed")
    /\ json_data' = [json_data EXCEPT ![p] = <<>>]
    /\ data' = [data EXCEPT ![p] = None]
    /\ i' = [i EXCEPT ![p] = 0]
    /\ updated_json_data' = [updated_json_data EXCEPT ![p] = <<>>]
    /\ pos' = [pos EXCEPT ![p] = 0]
    /\ UNCHANGED <<atit_json, stdout, initial, err>>

\* the script is run, and run again once the run before has ended
InTurn(p) == \A q \in 1..(p - 1) : pc[q] \in Terminated

Next ==
    \E p \in Procs :
        \/ InTurn(p) /\ OpenRead(p)
        \/ Read(p)
        \/ Loads(p)
        \/ Enumerate(p)
        \/ For(p)
        \/ Dumps(p)
        \/ OpenWrite(p)
        \/ Write(p)
        \/ WriteFails(p)
        \/ Report(p)
        \/ Crash(p)

Spec == Init /\ [][Next]_vars

(***************************************************************************)
(* Two instances of the script started against the same file with nothing  *)
(* ordering their steps; neither is killed and no write fails.             *)
(***************************************************************************)
\* {"portfolio": []}
FNoItems == FPortfolio(<<LBrack, RBrack>>)

ConcFiles == {FCompact, FNoItems}

InitConc == InitWith(ConcFiles)

NextConc ==
    \E p \in {1, 2} :
        \/ OpenRead(p)
        \/ Read(p)
        \/ Loads(p)
        \/ Enumerate(p)
        \/ For(p)
        \/ Dumps(p)
        \/ OpenWrite(p)
        \/ Write(p)
        \/ Report(p)

SpecConc == InitConc /\ [][NextConc]_vars

(***************************************************************************)
(* Properties.                                                             *)
(***************************************************************************)
\* run p is the last one started
Latest(p) == \A q \in Procs : q > p => pc[q] = "idle"

\* run p has read and parsed its input and still holds it
Parsed(p) == pc[p] \in {"enumerate", "for", "dumps", "open_w", "write", "print", "done"}
             \/ (pc[p] = "failed" /\ err[p] # "JSONDecodeError")

\* the document run p loaded, as it was before the loop touched it
Loaded(p) == loads(json_data[p]).val

\* x is a list of n dicts, each with its zero-based position as `id`
Stamped(x, n) ==
    /\ IsList(x)
    /\ Len(x[2]) = n
    /\ \A j \in 1..n : /\ IsDict(x[2][j])
                       /\ HasKey(x[2][j], "id")
                       /\ GetItem(x[2][j], "id") = Num(j - 1)

\* the keys of dict d, in order
Keys(d) == [j \in 1..Len(d[2]) |-> d[2][j][1]]

\* the members of dict e but those with key k, in order
Without(e, k) == SelectSeq(e[2], LAMBDA m : m[1] # k)

\* document b is document a but for the `id` of the elements of `portfolio`
SameButIds(a, b) ==
    /\ IsDict(b)
    /\ Keys(b) = Keys(a)
    /\ \A j \in 1..Len(a[2]) :
         IF a[2][j][1] = "portfolio" /\ IsList(a[2][j][2])
         THEN LET x == a[2][j][2][2]
                  y == b[2][j][2] IN
              /\ IsList(y)
              /\ Len(y[2]) = Len(x)
              /\ \A m \in 1..Len(x) : /\ IsDict(y[2][m])
                                      /\ Without(y[2][m], "id") = Without(x[m], "id")
         ELSE b[2][j] = a[2][j]

\* C1 (reindex correctness): when a run has ended well and no later run has
\* begun, the document in the file, like the one in memory, has a portfolio
\* of the length the loaded one had, and element j of it (j counted from
\* zero) has id j, whatever id it had or lacked when loaded.
ReindexCorrect ==
    \A p \in Procs :
        (pc[p] = "done" /\ Latest(p) /\ IsList(GetItem(Loaded(p), "portfolio"))) =>
            LET n == Len(GetItem(Loaded(p), "portfolio")[2])
                written == loads(atit_json) IN
            /\ Stamped(GetItem(data[p], "portfolio"), n)
            /\ written.ok
            /\ IsDict(written.val)
            /\ HasKey(written.val, "portfolio")
            /\ Stamped(GetItem(written.val, "portfolio"), n)

\* the spec's example has been processed: ids absent, 99, absent became 0, 1, 2
ReindexCorrectWitness ==
    /\ initial = FExample
    /\ pc[1] = "done"
    /\ Latest(1)
    /\ atit_json # initial

\* C2 (order and frame preservation): when a run has ended well and no later
\* run has begun, the document in the file has the top-level keys of the
\* loaded one with the same values, but for `portfolio`, which has the same
\* number of elements in the same order, each with the members it had but `id`.
FramePreserved ==
    \A p \in Procs :
        (pc[p] = "done" /\ Latest(p)) =>
            /\ loads(atit_json).ok
            /\ SameButIds(Loaded(p), loads(atit_json).val)
            /\ SameButIds(Loaded(p), data[p])

\* a document with other top-level keys, nested values and an id to overwrite
FramePreservedWitness ==
    /\ initial = FFrame
    /\ pc[1] = "done"
    /\ Latest(1)
    /\ loads(atit_json).val # Loaded(1)

\* C3 (idempotence): when two runs in succession have both ended well, the
\* file holds the text the first of them wrote, and the second run's document
\* equals the first run's.
Idempotent ==
    \A p \in Procs : \A q \in Procs :
        (q = p + 1 /\ pc[p] = "done" /\ pc[q] = "done" /\ Latest(q)) =>
            /\ atit_json = updated_json_data[p]
            /\ data[q] = data[p]

\* two runs over the spec's example
IdempotentWitness ==
    /\ initial = FExample
    /\ pc[1] = "done"
    /\ pc[2] = "done"
    /\ Latest(2)
    /\ json_data[2] # json_data[1]

\* C4 (missing key): a run that loaded a dict without the key `portfolio`
\* gets no further than the lookup, ends with KeyError if it ends, and the
\* file holds what the run read.
MissingKeyFails ==
    \A p \in Procs :
        (Parsed(p) /\ IsDict(Loaded(p)) /\ ~HasKey(Loaded(p), "portfolio")) =>
            /\ pc[p] \in {"enumerate", "failed"}
            /\ pc[p] = "failed" => err[p] = "KeyError"
            /\ Latest(p) => atit_json = json_data[p]
            /\ p = 1 => stdout = <<>>

\* {"owner": "x"} has failed with KeyError
MissingKeyFailsWitness ==
    /\ initial = <<LBrace>> \o K("owner") \o <<Str("x"), RBrace>>
    /\ pc[1] = "failed"
    /\ err[1] = "KeyError"
    /\ atit_json = initial

\* C5 (malformed input): a run that read a text that is not JSON gets no
\* further than json.loads, ends with JSONDecodeError if it ends, and the
\* file holds what the run read.
MalformedFails ==
    \A p \in Procs :
        (/\ pc[p] \notin {"idle", "read", "crashed"}
         /\ (json_data[p] \in MalformedFiles \/ ~loads(json_data[p]).ok)) =>
            /\ pc[p] \in {"loads", "failed"}
            /\ pc[p] = "failed" => err[p] = "JSONDecodeError"
            /\ Latest(p) => atit_json = json_data[p]
            /\ p = 1 => stdout = <<>>

\* the text `not json` has failed with JSONDecodeError
MalformedFailsWitness ==
    /\ initial = <<Bad("not"), Sp, Bad("json")>>
    /\ pc[1] = "failed"
    /\ err[1] = "JSONDecodeError"
    /\ atit_json = initial

\* the value x of `portfolio` is no list, or a list with an element that is
\* no dict
OffSchema(x) == ~IsList(x) \/ \E j \in 1..Len(x[2]) : ~IsDict(x[2][j])

\* an empty dict or an empty str: nothing to iterate over
Empty(x) == x[1] \in {"obj", "str"} /\ Len(x[2]) = 0

\* C6 as claimed (schema failure): a run whose `portfolio` is no list, an
\* empty dict and an empty str included, or has an element that is no dict,
\* does not end well.
SchemaFailsAsClaimed ==
    \A p \in Procs :
        (/\ Parsed(p)
         /\ IsDict(Loaded(p))
         /\ HasKey(Loaded(p), "portfolio")
         /\ OffSchema(GetItem(Loaded(p), "portfolio"))) => pc[p] # "done"

\* C6 as amended: a run whose `portfolio` is a number, null, true, false, a
\* dict or str that is not empty, or a list with an element that is no dict,
\* gets no further than the loop, ends with TypeError if it ends, and the
\* file holds what the run read; with an empty dict or an empty str as
\* `portfolio` the loop has nothing to do, and a run that ends well leaves
\* the loaded document as it was.
SchemaFails ==
    \A p \in Procs :
        (/\ Parsed(p)
         /\ IsDict(Loaded(p))
         /\ HasKey(Loaded(p), "portfolio")
         /\ OffSchema(GetItem(Loaded(p), "portfolio"))) =>
            IF Empty(GetItem(Loaded(p), "portfolio"))
            THEN /\ pc[p] # "failed" \/ err[p] = "OSError"
                 /\ pc[p] \notin {"enumerate", "failed"} => data[p] = Loaded(p)
            ELSE /\ pc[p] \in {"enumerate", "for", "failed"}
                 /\ pc[p] = "failed" => err[p] = "TypeError"
                 /\ Latest(p) => atit_json = json_data[p]

\* {"portfolio": "ab"} has failed with TypeError
SchemaFailsWitness ==
    /\ initial = FPortfolio(<<Str("ab")>>)
    /\ pc[1] = "failed"
    /\ err[1] = "TypeError"
    /\ atit_json = initial

\* C7 (round trip): once a run has written its text and no later run has
\* begun, the file holds exactly that text, and parsing the file gives a
\* document equal to the one the run holds in memory.
RoundTrip ==
    \A p \in Procs :
        (pc[p] \in {"print", "done"} /\ Latest(p)) =>
            /\ atit_json = updated_json_data[p]
            /\ loads(atit_json).ok
            /\ loads(atit_json).val = data[p]

\* a file longer than the text that replaces it has been rewritten
RoundTripWitness ==
    /\ initial = FRepeated
    /\ pc[1] = "print"
    /\ Latest(1)
    /\ Len(atit_json) < Len(initial)

\* C8 (store is not atomic): from the moment a run has opened the file for
\* writing until its last write, and after a write of it has failed, the file
\* holds only the part of the new text written so far, nothing of it at
\* first: neither what the run read nor the new text nor any JSON document.
StoreNotAtomic ==
    \A p \in Procs :
        (/\ Latest(p)
         /\ pc[p] = "write" \/ (pc[p] = "failed" /\ err[p] = "OSError")
         /\ pos[p] < Len(updated_json_data[p])) =>
            /\ atit_json = SubSeq(updated_json_data[p], 1, pos[p])
            /\ atit_json # json_data[p]
            /\ atit_json # updated_json_data[p]
            /\ ~loads(atit_json).ok

\* the run was killed in the middle of its writes and nothing runs after it:
\* the file, a JSON document at first, holds a part of a text and is none
StoreNotAtomicWitness ==
    /\ pc[1] = "crashed"
    /\ Latest(1)
    /\ loads(initial).ok
    /\ atit_json # initial
    /\ atit_json # <<>>
    /\ ~loads(atit_json).ok

\* C10 (no write before load and loop have succeeded): while the last run
\* started is reading, parsing or looping, or has failed in one of these, the
\* file holds what it held when the run began and the run has printed
\* nothing; a run that has opened the file for writing has been through
\* every element of `portfolio`.
NoWriteBeforeSuccess ==
    \A p \in Procs :
        /\ (/\ Latest(p)
            /\ \/ pc[p] \in {"read", "loads", "enumerate", "for", "dumps", "open_w"}
               \/ (pc[p] = "failed" /\ err[p] # "OSError")) =>
                 /\ p = 1 => atit_json = initial
                 /\ pc[p] # "read" => atit_json = json_data[p]
                 /\ Len(stdout) < p
        /\ pc[p] \in {"open_w", "write", "print", "done"} =>
                 /\ i[p] = Len(Items(GetItem(Loaded(p), "portfolio")))
                 /\ IsList(GetItem(Loaded(p), "portfolio")) =>
                        Stamped(GetItem(data[p], "portfolio"), i[p])

\* [{"name": "A"}, {}, 3, {}]: two elements stamped in memory, then TypeError
\* at the third, and the file as it was
NoWriteBeforeSuccessWitness ==
    /\ pc[1] = "failed"
    /\ err[1] = "TypeError"
    /\ i[1] = 2
    /\ data[1] # Loaded(1)
    /\ atit_json = initial
    /\ stdout = <<>>

\* document d with every element of its `portfolio` list given its
\* zero-based position as `id`
Reindexed(d) ==
    LET x == GetItem(d, "portfolio")[2] IN
    SetItem(d, "portfolio", Arr([j \in 1..Len(x) |-> SetItem(x[j], "id", Num(j - 1))]))

\* both instances have ended well
BothDone == pc[1] = "done" /\ pc[2] = "done"

\* C9 (concurrent instances race), checked under SpecConc: when both
\* instances have ended well the file holds the text one of them wrote (the
\* last writer wins), and that text is the reindexed form of the initial
\* document unless an instance read a text that is neither the initial one
\* nor the reindexed one: a read torn by the other instance's truncation and
\* writes.
RaceOutcome ==
    BothDone =>
        /\ \E p \in {1, 2} : atit_json = updated_json_data[p]
        /\ \/ /\ loads(atit_json).ok
              /\ loads(atit_json).val = Reindexed(loads(initial).val)
           \/ \E p \in {1, 2} :
                 json_data[p] \notin {initial, dumps(Reindexed(loads(initial).val))}

\* both instances have ended well, neither was killed, and the file holds a
\* document that is not the reindexed form of the initial one
RaceOutcomeWitness ==
    /\ BothDone
    /\ loads(initial).ok
    /\ loads(atit_json).ok
    /\ loads(atit_json).val # Reindexed(loads(initial).val)

====
